---- MODULE Spec2Model ----
(***************************************************************************)
(* State-machine model of the Snowy SDK client: SnowyClient.generate,      *)
(* Transport.postJson, signHash / ensureBase58PublicKey and the            *)
(* deterministic hashing helpers of crypto/hash.ts.                        *)
(*                                                                         *)
(* One record per call holds the locals of that call's activation of       *)
(* generate / postJson; the client's configuration is fixed after          *)
(* construction.  The wallet, the fetch implementation, the timer and the  *)
(* caller's AbortSignal are the environment: their steps are actions.      *)
(***************************************************************************)
EXTENDS Integers, Sequences, FiniteSets, TLC

VARIABLES client, calls

vars == <<client, calls>>

\* Number of call slots of the client.
NumCalls == 2

CallIds == 1..NumCalls

(***************************************************************************)
(* JavaScript values.  A value is a record whose field t is its kind.      *)
(*   string      cs  : the text, a sequence of one-character strings       *)
(*   string      b58 : a text that is the base58 encoding of the bytes b58 *)
(*   number      k   : "int" | "frac" | "NaN" | "Infinity",  n : magnitude *)
(*               (a timestamp's n is in seconds: it has to fit 32 bits)    *)
(*   bytes           : a Uint8Array, len bytes long, contents named by id  *)
(***************************************************************************)
JUndefined == [t |-> "undefined"]

JNull == [t |-> "null"]

JBool(b) == [t |-> "boolean", b |-> b]

JInt(n) == [t |-> "number", k |-> "int", n |-> n]

\* a finite number with a fractional part, n tenths (0.2 is JFrac(2))
JFrac(n) == [t |-> "number", k |-> "frac", n |-> n]

JNaN == [t |-> "number", k |-> "NaN", n |-> 0]

JInfinity == [t |-> "number", k |-> "Infinity", n |-> 0]

JStr(cs) == [t |-> "string", cs |-> cs]

Bytes(len, id) == [len |-> len, id |-> id]

JUint8Array(bytes) == [t |-> "uint8array", bytes |-> bytes]

JArr(items) == [t |-> "array", items |-> items]

\* a plain object: its own enumerable properties in property order
JObj(entries) == [t |-> "object", entries |-> entries]

\* a BigInt: typeof "bigint", and JSON.stringify throws a TypeError on it
\* an index of an array that has no element (a sparse array)
JHole == [t |-> "hole"]

JBigInt == [t |-> "bigint"]

Entry(key, val) == [key |-> key, val |-> val]

IsFinite(v) == v.t = "number" /\ v.k \in {"int", "frac"}

IsInteger(v) == v.t = "number" /\ v.k = "int"

IsNullish(v) == v.t \in {"undefined", "null"}

(***************************************************************************)
(* Errors.  cls is the class of the thrown value (what instanceof sees),   *)
(* msg its message; a SnowyTransportError may carry a cause, a             *)
(* SnowyHttpError carries status, statusText, url and bodyText.            *)
(***************************************************************************)
Err(msg) == [cls |-> "Error", msg |-> msg]

Ok(val) == [ok |-> TRUE, val |-> val]

Throw(err) == [ok |-> FALSE, err |-> err]

(***************************************************************************)
(* Text.                                                                   *)
(***************************************************************************)
\* the characters of code 32..126, in code order (backslash and backtick by name)
Ascii ==
    << " ", "!", "\"", "#", "$", "%", "&", "'", "(", ")", "*", "+", ",", "-", ".", "/",
       "0", "1", "2", "3", "4", "5", "6", "7", "8", "9", ":", ";", "<", "=", ">", "?",
       "@", "A", "B", "C", "D", "E", "F", "G", "H", "I", "J", "K", "L", "M", "N", "O",
       "P", "Q", "R", "S", "T", "U", "V", "W", "X", "Y", "Z", "[", "<backslash>", "]", "^", "_",
       "<backtick>", "a", "b", "c", "d", "e", "f", "g", "h", "i", "j", "k", "l", "m", "n", "o",
       "p", "q", "r", "s", "t", "u", "v", "w", "x", "y", "z", "{", "|", "}", "~" >>

\* the UTF-16 code unit of a character
CharCode(ch) == 31 + (CHOOSE i \in 1..Len(Ascii) : Ascii[i] = ch)

WhiteSpace == {" ", "\t", "\n", "\r"}

RECURSIVE TrimStart(_)
TrimStart(cs) ==
    IF cs # <<>> /\ Head(cs) \in WhiteSpace THEN TrimStart(Tail(cs)) ELSE cs

RECURSIVE TrimEnd(_)
TrimEnd(cs) ==
    IF cs # <<>> /\ cs[Len(cs)] \in WhiteSpace
    THEN TrimEnd(SubSeq(cs, 1, Len(cs) - 1))
    ELSE cs

\* String.prototype.trim
Trim(cs) == TrimEnd(TrimStart(cs))

Digits == {"0", "1", "2", "3", "4", "5", "6", "7", "8", "9"}

Base58Alphabet ==
    { "1", "2", "3", "4", "5", "6", "7", "8", "9",
      "A", "B", "C", "D", "E", "F", "G", "H", "J", "K", "L", "M", "N", "P", "Q",
      "R", "S", "T", "U", "V", "W", "X", "Y", "Z",
      "a", "b", "c", "d", "e", "f", "g", "h", "i", "j", "k", "m", "n", "o", "p",
      "q", "r", "s", "t", "u", "v", "w", "x", "y", "z" }

\* bs58.encode: the text that decodes to exactly these bytes
Bs58Encode(bytes) == [t |-> "string", b58 |-> bytes]

\* bs58.decode: throws on a value that is not a base58 text.  The byte count
\* of a text given by its characters is at most its character count (equal
\* to it for a text of "1"s, the zero digit); the count itself is taken.
Bs58Decode(v) ==
    IF v.t # "string" THEN Throw(Err("Expected String"))
    ELSE IF "b58" \in DOMAIN v THEN Ok(v.b58)
    ELSE IF \E i \in 1..Len(v.cs) : v.cs[i] \notin Base58Alphabet
         THEN Throw(Err("Non-base58 character"))
         ELSE Ok(Bytes(Len(v.cs), <<"bs58", v.cs>>))

\* a string's length is 0 only for the empty text; a base58 encoding of a
\* non-empty byte array is non-empty
IsEmptyText(v) ==
    IF "b58" \in DOMAIN v THEN v.b58.len = 0 ELSE v.cs = <<>>

IsBlankText(v) ==
    IF "b58" \in DOMAIN v THEN v.b58.len = 0 ELSE Trim(v.cs) = <<>>

(***************************************************************************)
(* crypto/hash.ts: canonicalizeJson, JSON.stringify, sha256.               *)
(***************************************************************************)
\* a < b in the order of Array.prototype.sort without a comparator: by UTF-16
\* code units, a proper prefix first
RECURSIVE KeyLess(_, _)
KeyLess(a, b) ==
    IF b = <<>> THEN FALSE
    ELSE IF a = <<>> THEN TRUE
    ELSE IF Head(a) = Head(b) THEN KeyLess(Tail(a), Tail(b))
    ELSE CharCode(Head(a)) < CharCode(Head(b))

RECURSIVE InsertKey(_, _)
InsertKey(sorted, key) ==
    IF sorted = <<>> THEN <<key>>
    ELSE IF KeyLess(key, Head(sorted)) THEN <<key>> \o sorted
    ELSE <<Head(sorted)>> \o InsertKey(Tail(sorted), key)

\* the keys as Object.keys gives them, not sorted
SortKeys_AsGiven(keys) == keys

\* Object.keys(value).sort()
RECURSIVE SortKeys(_)
SortKeys(keys) ==
    IF keys = <<>> THEN <<>>
    ELSE InsertKey(SortKeys(SubSeq(keys, 1, Len(keys) - 1)), keys[Len(keys)])

\* the digits "4294967295" of 2^32 - 1
MaxIndexText == <<"4", "2", "9", "4", "9", "6", "7", "2", "9", "5">>

\* an integer index: the canonical decimal text of an integer below 2^32 - 1
IsArrayIndex(cs) ==
    /\ cs # <<>>
    /\ \A i \in 1..Len(cs) : cs[i] \in Digits
    /\ (Len(cs) = 1 \/ cs[1] # "0")
    /\ (Len(cs) < 10 \/ (Len(cs) = 10 /\ KeyLess(cs, MaxIndexText)))

\* a < b as numbers, for two integer indices
IndexLess(a, b) == Len(a) < Len(b) \/ (Len(a) = Len(b) /\ KeyLess(a, b))

Get(obj, key) ==
    IF \E i \in 1..Len(obj.entries) : obj.entries[i].key = key
    THEN obj.entries[CHOOSE i \in 1..Len(obj.entries) : obj.entries[i].key = key].val
    ELSE JUndefined

RECURSIVE InsertIndex(_, _)
InsertIndex(sorted, e) ==
    IF sorted = <<>> THEN <<e>>
    ELSE IF IndexLess(e.key, Head(sorted).key) THEN <<e>> \o sorted
    ELSE <<Head(sorted)>> \o InsertIndex(Tail(sorted), e)

\* out[key] = val on an object that has no property key: integer indices are
\* kept first, in ascending numeric order, the other keys in creation order
SetProperty(entries, key, val) ==
    LET isIdx(e) == IsArrayIndex(e.key)
        notIdx(e) == ~IsArrayIndex(e.key)
        idx == SelectSeq(entries, isIdx)
        rest == SelectSeq(entries, notIdx)
    IN  IF IsArrayIndex(key)
        THEN InsertIndex(idx, Entry(key, val)) \o rest
        ELSE idx \o Append(rest, Entry(key, val))

UndefinedInPayload == Err("Snowy SDK: undefined values are not allowed in hashed payloads")

NonFiniteNumber == Err("Snowy SDK: numbers must be finite for deterministic hashing")

Uint8ArrayInPayload ==
    Err("Snowy SDK: Uint8Array is not JSON-canonical; encode to base58/base64 string before hashing")

UnsupportedValue == Err("Snowy SDK: unsupported value type for hashing")

\* the first element of a sequence of results that threw, or the values
FirstThrow(rs) ==
    IF \E i \in 1..Len(rs) : ~rs[i].ok
    THEN rs[CHOOSE i \in 1..Len(rs) : ~rs[i].ok /\ \A j \in 1..(i - 1) : rs[j].ok]
    ELSE Ok([i \in 1..Len(rs) |-> rs[i].val])

RECURSIVE BuildObject(_, _, _)
BuildObject(keys, vals, out) ==
    IF keys = <<>> THEN out
    ELSE BuildObject(Tail(keys), Tail(vals), SetProperty(out, Head(keys), Head(vals)))

RECURSIVE canonicalizeJson(_)
canonicalizeJson(value) ==
    IF value.t = "undefined" THEN Throw(UndefinedInPayload)
    ELSE IF value.t = "null" THEN Ok(JNull)
    ELSE IF value.t \in {"string", "boolean"} THEN Ok(value)
    ELSE IF value.t = "number"
         THEN IF IsFinite(value) THEN Ok(value) ELSE Throw(NonFiniteNumber)
    ELSE IF value.t = "uint8array" THEN Throw(Uint8ArrayInPayload)
    ELSE IF value.t = "array"
         THEN LET \* Array.prototype.map does not call back for an index
                  \* that has no element, and leaves it without one
                  rs == FirstThrow([i \in 1..Len(value.items) |->
                                        IF value.items[i].t = "hole" THEN Ok(JHole)
                                        ELSE canonicalizeJson(value.items[i])])
              IN  IF rs.ok THEN Ok(JArr(rs.val)) ELSE rs
    ELSE IF value.t = "object"
         THEN LET keys == SortKeys([i \in 1..Len(value.entries) |-> value.entries[i].key])
                  rs == FirstThrow([i \in 1..Len(keys) |->
                                        canonicalizeJson(Get(value, keys[i]))])
              IN  IF rs.ok THEN Ok(JObj(BuildObject(keys, rs.val, <<>>))) ELSE rs
    ELSE Throw(UnsupportedValue)

Punct(ch) == [tok |-> "punct", ch |-> ch]

Literal(v) == [tok |-> "value", v |-> v]

RECURSIVE Join(_)
Join(parts) ==
    IF parts = <<>> THEN <<>>
    ELSE IF Len(parts) = 1 THEN parts[1]
    ELSE parts[1] \o <<Punct(",")>> \o Join(Tail(parts))

\* JSON.stringify: the text as its tokens.  A property whose value is
\* undefined is left out, undefined or no element in an array and a
\* non-finite number are written null, a BigInt throws, and a Uint8Array is written as the object
\* of its indices (one token here).
RECURSIVE JsonStringify(_)
JsonStringify(v) ==
    IF v.t = "bigint" THEN Throw([cls |-> "TypeError", msg |-> "Do not know how to serialize a BigInt"])
    ELSE IF v.t \in {"null", "undefined", "hole"} THEN Ok(<<Literal(JNull)>>)
    ELSE IF v.t = "number"
         THEN Ok(<<Literal(IF IsFinite(v) THEN v ELSE JNull)>>)
    ELSE IF v.t \in {"string", "boolean"} THEN Ok(<<Literal(v)>>)
    ELSE IF v.t = "array"
         THEN LET rs == FirstThrow([i \in 1..Len(v.items) |-> JsonStringify(v.items[i])])
              IN  IF rs.ok THEN Ok(<<Punct("[")>> \o Join(rs.val) \o <<Punct("]")>>) ELSE rs
    ELSE IF v.t = "object"
         THEN LET defined(e) == e.val.t # "undefined"
                  es == SelectSeq(v.entries, defined)
                  rs == FirstThrow([i \in 1..Len(es) |-> JsonStringify(es[i].val)])
              IN  IF rs.ok
                  THEN Ok(<<Punct("{")>>
                          \o Join([i \in 1..Len(es) |->
                                     <<Literal(JStr(es[i].key)), Punct(":")>> \o rs.val[i]])
                          \o <<Punct("}")>>)
                  ELSE rs
    ELSE Ok(<<Literal(v)>>)

\* SHA-256 of the UTF-8 bytes of a text: 32 bytes that name the text hashed
\* (no two texts share a digest)
sha256(json) == Bytes(32, <<"sha256", json>>)

NoSha256 == Err("Snowy SDK: no SHA-256 implementation available in this environment")

\* hashDeterministicJson; available: whether the runtime has a SHA-256
hashDeterministicJson(value, available) ==
    LET canonical == canonicalizeJson(value)
    IN  IF ~canonical.ok THEN canonical
        ELSE LET json == JsonStringify(canonical.val)
             IN  IF ~json.ok THEN json
                 ELSE IF ~available THEN Throw(NoSha256)
                 ELSE Ok([bytes |-> sha256(json.val),
                          base58 |-> Bs58Encode(sha256(json.val))])

(***************************************************************************)
(* Property names and fixed texts, as their characters.                    *)
(***************************************************************************)
kProgramId == <<"p", "r", "o", "g", "r", "a", "m", "I", "d">>

kModel == <<"m", "o", "d", "e", "l">>

kPrompt == <<"p", "r", "o", "m", "p", "t">>

kTemperature == <<"t", "e", "m", "p", "e", "r", "a", "t", "u", "r", "e">>

kMaxTokens == <<"m", "a", "x", "T", "o", "k", "e", "n", "s">>

kTimestamp == <<"t", "i", "m", "e", "s", "t", "a", "m", "p">>

kSigner == <<"s", "i", "g", "n", "e", "r">>

kRequestHash == <<"r", "e", "q", "u", "e", "s", "t", "H", "a", "s", "h">>

kSignature == <<"s", "i", "g", "n", "a", "t", "u", "r", "e">>

kOutput == <<"o", "u", "t", "p", "u", "t">>

kUsage == <<"u", "s", "a", "g", "e">>

kPromptTokens == <<"p", "r", "o", "m", "p", "t", "T", "o", "k", "e", "n", "s">>

kCompletionTokens == <<"c", "o", "m", "p", "l", "e", "t", "i", "o", "n", "T", "o", "k", "e", "n", "s">>

kTotalTokens == <<"t", "o", "t", "a", "l", "T", "o", "k", "e", "n", "s">>

kVerification == <<"v", "e", "r", "i", "f", "i", "c", "a", "t", "i", "o", "n">>

\* constants.ts is not among the sources; the README gives the value
SNOWY_PROGRAM_ID == JStr(<<"S", "N", "O", "W", "y", "1", "1", "1", "1", "1", "1", "1", "1", "1", "1", "1", "1", "1", "1", "1", "1", "1", "1", "1", "1", "1", "1", "1", "1", "1", "1", "1", "1", "1", "1", "1", "1", "1", "1">>)

SnowyBase == JStr(<<"s", "n", "o", "w", "y", "-", "b", "a", "s", "e">>)

SnowyMeme == JStr(<<"s", "n", "o", "w", "y", "-", "m", "e", "m", "e">>)

SnowyCode == JStr(<<"s", "n", "o", "w", "y", "-", "c", "o", "d", "e">>)

SnowyModels == {SnowyBase, SnowyMeme, SnowyCode}

(***************************************************************************)
(* crypto/signer.ts                                                        *)
(***************************************************************************)
InvalidBase58 == Err("Snowy SDK: wallet.publicKey must be a valid base58 string")

Not32Bytes == Err("Snowy SDK: wallet.publicKey must decode to 32 bytes")

\* the check without its length test
ensureBase58PublicKey_AnyLength(publicKey) ==
    IF ~Bs58Decode(publicKey).ok THEN Throw(InvalidBase58) ELSE Ok(TRUE)

ensureBase58PublicKey(publicKey) ==
    LET decoded == Bs58Decode(publicKey)
    IN  IF ~decoded.ok THEN Throw(InvalidBase58)
        ELSE IF decoded.val.len # 32 THEN Throw(Not32Bytes)
        ELSE Ok(TRUE)

Not32ByteHash == Err("Snowy SDK: expected a 32-byte hash to sign")

\* signHash up to its call of wallet.signMessage
signHashEnter(wallet, hash32) ==
    LET pk == ensureBase58PublicKey(wallet.publicKey)
    IN  IF ~pk.ok THEN pk
        ELSE IF hash32.t # "uint8array" \/ hash32.bytes.len # 32 THEN Throw(Not32ByteHash)
        ELSE Ok(hash32)

NotUint8Array == Err("Snowy SDK: wallet.signMessage must return Uint8Array")

Not64Bytes == Err("Snowy SDK: signature must be 64 bytes")

\* the check without its length test
signHashResume_AnyLength(sig) ==
    IF sig.t # "uint8array" THEN Throw(NotUint8Array) ELSE Ok(Bs58Encode(sig.bytes))

\* signHash after wallet.signMessage resolved with sig
signHashResume(sig) ==
    IF sig.t # "uint8array" THEN Throw(NotUint8Array)
    ELSE IF sig.bytes.len # 64 THEN Throw(Not64Bytes)
    ELSE Ok(Bs58Encode(sig.bytes))

(***************************************************************************)
(* client/SnowyClient.ts: the assertions and the response checks.          *)
(***************************************************************************)
\* what "!v" sees
Falsy(v) ==
    \/ v.t \in {"undefined", "null"}
    \/ v.t = "boolean" /\ ~v.b
    \/ v.t = "number" /\ (v.k = "NaN" \/ (v.k \in {"int", "frac"} /\ v.n = 0))
    \/ v.t = "string" /\ IsEmptyText(v)

\* typeof v = "object"
TypeofObject(v) == v.t \in {"null", "object", "array", "uint8array", "wallet"}

\* r.key, for a value r that is not null or undefined
Prop(r, key) == IF r.t = "object" THEN Get(r, key) ELSE JUndefined

NotNonEmptyString(name) ==
    [cls |-> "Error", msg |-> "Snowy SDK: must be a non-empty string", name |-> name]

\* a check of the length alone, without trim
assertNonEmptyString_NoTrim(name, value) ==
    IF value.t # "string" \/ IsEmptyText(value)
    THEN Throw(NotNonEmptyString(name))
    ELSE Ok(TRUE)

assertNonEmptyString(name, value) ==
    IF value.t # "string" \/ IsBlankText(value)
    THEN Throw(NotNonEmptyString(name))
    ELSE Ok(TRUE)

UnsupportedModel(model) ==
    [cls |-> "Error", msg |-> "Snowy SDK: unsupported model", model |-> model]

assertModel(model) ==
    IF model # SnowyBase /\ model # SnowyMeme /\ model # SnowyCode
    THEN Throw(UnsupportedModel(model))
    ELSE Ok(TRUE)

NotFiniteNumber(name) ==
    [cls |-> "Error", msg |-> "Snowy SDK: must be a finite number", name |-> name]

assertNumber(name, value) ==
    IF value.t # "number" \/ ~IsFinite(value)
    THEN Throw(NotFiniteNumber(name))
    ELSE Ok(TRUE)

NotInteger(name) ==
    [cls |-> "Error", msg |-> "Snowy SDK: must be an integer", name |-> name]

\* the check without its Number.isInteger test
assertInt_AnyNumber(name, value) == assertNumber(name, value)

assertInt(name, value) ==
    LET num == assertNumber(name, value)
    IN  IF ~num.ok THEN num
        ELSE IF ~IsInteger(value) THEN Throw(NotInteger(name))
        ELSE Ok(TRUE)

ShapeError(msg) == Err(msg)

validateGenerateResponse(resp) ==
    IF Falsy(resp) \/ ~TypeofObject(resp) THEN Throw(ShapeError("Snowy SDK: invalid response"))
    ELSE IF Prop(resp, kOutput).t # "string"
         THEN Throw(ShapeError("Snowy SDK: response.output must be a string"))
    ELSE IF Prop(resp, kModel).t # "string"
         THEN Throw(ShapeError("Snowy SDK: response.model must be a string"))
    ELSE IF ~assertModel(Prop(resp, kModel)).ok THEN assertModel(Prop(resp, kModel))
    ELSE LET u == Prop(resp, kUsage)
             v == Prop(resp, kVerification)
         IN  IF Falsy(u) \/ ~TypeofObject(u)
             THEN Throw(ShapeError("Snowy SDK: response.usage missing"))
             ELSE IF Prop(u, kPromptTokens).t # "number"
                  THEN Throw(ShapeError("Snowy SDK: usage.promptTokens missing"))
             ELSE IF Prop(u, kCompletionTokens).t # "number"
                  THEN Throw(ShapeError("Snowy SDK: usage.completionTokens missing"))
             ELSE IF Prop(u, kTotalTokens).t # "number"
                  THEN Throw(ShapeError("Snowy SDK: usage.totalTokens missing"))
             ELSE IF Falsy(v) \/ ~TypeofObject(v)
                  THEN Throw(ShapeError("Snowy SDK: response.verification missing"))
             ELSE IF Prop(v, kRequestHash).t # "string"
                  THEN Throw(ShapeError("Snowy SDK: verification.requestHash missing"))
             ELSE IF Prop(v, kSigner).t # "string"
                  THEN Throw(ShapeError("Snowy SDK: verification.signer missing"))
             ELSE IF Prop(v, kProgramId).t # "string"
                  THEN Throw(ShapeError("Snowy SDK: verification.programId missing"))
             ELSE Ok(TRUE)

RequestHashMismatch == Err("Snowy SDK: response verification.requestHash mismatch")

SignerMismatch == Err("Snowy SDK: response verification.signer mismatch")

ProgramIdMismatch == Err("Snowy SDK: response verification.programId mismatch")

\* the comparisons without the one of requestHash
verifyMetadata_NoHash(response, requestHash, publicKey, programId) ==
    LET v == Prop(response, kVerification)
    IN  IF Prop(v, kSigner) # publicKey THEN Throw(SignerMismatch)
        ELSE IF Prop(v, kProgramId) # programId THEN Throw(ProgramIdMismatch)
        ELSE Ok(response)

\* the comparisons with the signer's first
verifyMetadata_SignerFirst(response, requestHash, publicKey, programId) ==
    LET v == Prop(response, kVerification)
    IN  IF Prop(v, kSigner) # publicKey THEN Throw(SignerMismatch)
        ELSE IF Prop(v, kRequestHash) # requestHash THEN Throw(RequestHashMismatch)
        ELSE IF Prop(v, kProgramId) # programId THEN Throw(ProgramIdMismatch)
        ELSE Ok(response)

\* generate, lines 145-154, for a response that passed validateGenerateResponse
verifyMetadata(response, requestHash, publicKey, programId) ==
    LET v == Prop(response, kVerification)
    IN  IF Prop(v, kRequestHash) # requestHash THEN Throw(RequestHashMismatch)
        ELSE IF Prop(v, kSigner) # publicKey THEN Throw(SignerMismatch)
        ELSE IF Prop(v, kProgramId) # programId THEN Throw(ProgramIdMismatch)
        ELSE Ok(response)

WalletRequired == Err("Snowy SDK: wallet is required")

\* generate, lines 103-126: the checks in their order, then the payload to hash
buildToHash(wallet, input, programId, now) ==
    IF Falsy(wallet) THEN Throw(WalletRequired)
    ELSE IF ~ensureBase58PublicKey(wallet.publicKey).ok
         THEN ensureBase58PublicKey(wallet.publicKey)
    ELSE IF ~assertModel(input.model).ok THEN assertModel(input.model)
    ELSE IF ~assertNonEmptyString("prompt", input.prompt).ok
         THEN assertNonEmptyString("prompt", input.prompt)
    ELSE IF ~assertNumber("temperature", input.temperature).ok
         THEN assertNumber("temperature", input.temperature)
    ELSE IF ~assertInt("maxTokens", input.maxTokens).ok
         THEN assertInt("maxTokens", input.maxTokens)
    ELSE LET timestamp == IF IsNullish(input.timestamp) THEN now ELSE input.timestamp
         IN  IF ~assertInt("timestamp", timestamp).ok THEN assertInt("timestamp", timestamp)
             ELSE Ok(JObj(<< Entry(kProgramId, programId),
                             Entry(kModel, input.model),
                             Entry(kPrompt, input.prompt),
                             Entry(kTemperature, input.temperature),
                             Entry(kMaxTokens, input.maxTokens),
                             Entry(kTimestamp, timestamp),
                             Entry(kSigner, wallet.publicKey) >>))

\* a request that carries the hash text in the place of the signature
buildRequest_HashAsSignature(toHash, requestHash, signature) ==
    JObj(toHash.entries \o <<Entry(kRequestHash, requestHash), Entry(kSignature, requestHash)>>)

\* generate, lines 132-136: {...toHash, requestHash, signature}
buildRequest(toHash, requestHash, signature) ==
    JObj(toHash.entries \o <<Entry(kRequestHash, requestHash), Entry(kSignature, signature)>>)

(***************************************************************************)
(* client/Transport.ts: the errors and the pure parts of postJson.         *)
(***************************************************************************)
SnowyHttpError(status, statusText, url, bodyText) ==
    [cls |-> "SnowyHttpError", msg |-> "Snowy SDK: HTTP",
     status |-> status, statusText |-> statusText, url |-> url, bodyText |-> bodyText]

SnowyTransportError(msg, cause) ==
    [cls |-> "SnowyTransportError", msg |-> msg, cause |-> cause]

EmptyBody == SnowyTransportError("Snowy SDK: empty JSON response body", JUndefined)

ParseFailure(e) == SnowyTransportError("Snowy SDK: failed to parse JSON response", e)

NetworkFailure(e) == SnowyTransportError("Snowy SDK: network or fetch failure", e)

\* the reason the timer's callback aborts the controller with
TimeoutReason == Err("Snowy SDK: request timeout")

\* the reason of a caller's signal aborted without one
AbortReason == [cls |-> "DOMException", msg |-> "AbortError"]

\* a rejection of fetch or of the body read by the network
NetworkFault == [cls |-> "TypeError", msg |-> "fetch failed"]

\* a body text: raw, given by its characters (letters only, or one digit), or
\* the JSON encoding of a value
RawText(cs) == [kind |-> "raw", cs |-> cs]

JsonText(v) == [kind |-> "json", val |-> v]

TextIsEmpty(text) == text.kind = "raw" /\ text.cs = <<>>

\* JSON.parse
JsonParse(text) ==
    IF text.kind = "json" THEN Ok(text.val)
    ELSE IF text.cs = <<"n", "u", "l", "l">> THEN Ok(JNull)
    ELSE IF text.cs = <<"t", "r", "u", "e">> THEN Ok(JBool(TRUE))
    ELSE IF text.cs = <<"f", "a", "l", "s", "e">> THEN Ok(JBool(FALSE))
    ELSE IF Len(text.cs) = 1 /\ text.cs[1] \in Digits THEN Ok(JInt(CharCode(text.cs[1]) - 48))
    ELSE Throw([cls |-> "SyntaxError", msg |-> "Unexpected token"])

\* the default taken whenever the call's own timeout is falsy (|| for ??)
effectiveTimeout_OrDefault(initTimeoutMs, defaultTimeoutMs) ==
    IF Falsy(initTimeoutMs) THEN defaultTimeoutMs ELSE initTimeoutMs

\* postJson, line 210: init?.timeoutMs ?? this.timeoutMs
effectiveTimeout(initTimeoutMs, defaultTimeoutMs) ==
    IF IsNullish(initTimeoutMs) THEN defaultTimeoutMs ELSE initTimeoutMs

\* the choice with the controller's signal first
chooseSignal_ControllerFirst(initSignal, controller) ==
    IF controller # "none" THEN "controller"
    ELSE IF initSignal # "none" THEN "init"
    ELSE "null"

\* postJson, line 217: (init?.signal ?? controller?.signal) ?? null
chooseSignal(initSignal, controller) ==
    IF initSignal # "none" THEN "init"
    ELSE IF controller # "none" THEN "controller"
    ELSE "null"

\* a body read that looks at the text before it looks at the status
readBody_TextFirst(res, url, text) ==
    IF TextIsEmpty(text) THEN Throw(EmptyBody)
    ELSE IF ~res.ok THEN Throw(SnowyHttpError(res.status, res.statusText, url, text))
    ELSE LET parsed == JsonParse(text)
         IN  IF parsed.ok THEN parsed ELSE Throw(ParseFailure(parsed.err))

\* postJson, lines 228-246, once the body text is read
readBody(res, url, text) ==
    IF ~res.ok THEN Throw(SnowyHttpError(res.status, res.statusText, url, text))
    ELSE IF TextIsEmpty(text) THEN Throw(EmptyBody)
    ELSE LET parsed == JsonParse(text)
         IN  IF parsed.ok THEN parsed ELSE Throw(ParseFailure(parsed.err))

\* a handler that wraps whatever it catches
catchClause_WrapsAll(e) == NetworkFailure(e)

\* postJson, lines 247-250
catchClause(e) ==
    IF e.cls = "SnowyHttpError" THEN e
    ELSE IF e.cls = "SnowyTransportError" THEN e
    ELSE NetworkFailure(e)

\* a finally block that leaves the timer alone
clearTimer_Never(timer) == timer

\* postJson, line 252
clearTimer(timer) == IF timer = "pending" THEN "cleared" ELSE timer

(***************************************************************************)
(* The state of one call of generate, postJson or hashDeterministicJson.    *)
(*   pc        idle, hashing or digesting (awaiting the digest), signing   *)
(*             (awaiting wallet.signMessage), fetching (awaiting fetch),   *)
(*             reading (awaiting res.text()), done                         *)
(*   entry     which method the caller invoked                             *)
(*   timer     none, pending, fired, cleared: the timer of setTimeout      *)
(*   controller none, live, aborted: the call's AbortController            *)
(*   signal    the signal handed to fetch: null, init (the caller's) or    *)
(*             controller (the call's own)                                 *)
(*   extSignal none, live, aborted: the caller's AbortSignal               *)
(*   canonical, json: what a direct call of hashDeterministicJson          *)
(*             canonicalized its value to, and the text it hashed          *)
(*   exit      the place the call settled from                             *)
(*   hashes, signCalls, fetchCalls: how often the call has invoked         *)
(*             hashDeterministicJson, wallet.signMessage and fetch         *)
(***************************************************************************)
NoInit == [timeoutMs |-> JUndefined, signal |-> "none"]

NoRes == [ok |-> FALSE, status |-> 0, statusText |-> ""]

Pending == [kind |-> "pending"]

Returned(val) == [kind |-> "returned", val |-> val]

Threw(err) == [kind |-> "threw", err |-> err]

IdleCall ==
    [pc |-> "idle", entry |-> "none",
     wallet |-> JNull, input |-> JUndefined,
     canonical |-> JUndefined, json |-> JUndefined,
     toHash |-> JUndefined, requestHashBytes |-> JUndefined, requestHash |-> JUndefined,
     signed |-> JUndefined, sig |-> JUndefined, signature |-> JUndefined,
     body |-> JUndefined, init |-> NoInit, timeoutMs |-> JUndefined,
     controller |-> "none", timer |-> "none", signal |-> "null", extSignal |-> "none",
     sent |-> JUndefined, res |-> NoRes, text |-> JUndefined, response |-> JUndefined,
     outcome |-> Pending, exit |-> "none",
     hashes |-> 0, signCalls |-> 0, fetchCalls |-> 0]

\* the call settles: its promise is fulfilled or rejected
finish(call, result, exit) ==
    [call EXCEPT !.pc = "done",
                 !.outcome = IF result.ok THEN Returned(result.val) ELSE Threw(result.err),
                 !.exit = IF result.ok THEN "return" ELSE exit]

\* a client that keeps the requestHash to verify against in a field of its
\* own, which every call overwrites
resumeGenerate_SharedHash(call, result, programId) ==
    LET others == {d \in CallIds : /\ calls[d].requestHash # JUndefined
                                   /\ calls[d].requestHash # call.requestHash}
        shared == IF others = {} THEN call.requestHash
                  ELSE calls[CHOOSE d \in others : TRUE].requestHash
    IN  IF ~result.ok THEN finish(call, result, "transport")
        ELSE LET shape == validateGenerateResponse(result.val)
                 got == [call EXCEPT !.response = result.val]
             IN  IF ~shape.ok THEN finish(got, shape, "shape")
                 ELSE finish(got,
                             verifyMetadata(result.val, shared,
                                            call.wallet.publicKey, programId),
                             "verification")

\* generate, lines 143-156: the continuation after postJson settled
resumeGenerate(call, result, programId) ==
    IF ~result.ok THEN finish(call, result, "transport")
    ELSE LET shape == validateGenerateResponse(result.val)
             got == [call EXCEPT !.response = result.val]
         IN  IF ~shape.ok THEN finish(got, shape, "shape")
             ELSE finish(got,
                         verifyMetadata(result.val, call.requestHash,
                                        call.wallet.publicKey, programId),
                         "verification")

\* postJson, lines 247-253: catch, finally, and the caller's continuation
settlePostJson(call, result, programId) ==
    LET caught == IF result.ok THEN result ELSE Throw(catchClause(result.err))
        released == [call EXCEPT !.timer = clearTimer(@)]
    IN  IF call.entry = "postJson"
        THEN finish(released, caught, "transport")
        ELSE resumeGenerate(released, caught, programId)

\* postJson, lines 210-226: up to the call of fetch
enterPostJson(call, body, init, defaultTimeoutMs, programId) ==
    LET timeoutMs == effectiveTimeout(init.timeoutMs, defaultTimeoutMs)
        armed == ~Falsy(timeoutMs)
        controller == IF armed THEN "live" ELSE "none"
        json == JsonStringify(body)
        entered == [call EXCEPT !.body = body, !.init = init,
                                !.timeoutMs = timeoutMs,
                                !.controller = controller,
                                !.timer = IF armed THEN "pending" ELSE "none",
                                !.signal = chooseSignal(init.signal, controller),
                                !.extSignal = init.signal]
    IN  IF json.ok
        THEN [entered EXCEPT !.pc = "fetching", !.fetchCalls = @ + 1, !.sent = json.val]
        ELSE settlePostJson(entered, json, programId)

\* the signal handed to fetch is aborted
signalAborted(call) ==
    \/ call.signal = "init" /\ call.extSignal = "aborted"
    \/ call.signal = "controller" /\ call.controller = "aborted"

signalReason(call) == IF call.signal = "init" THEN AbortReason ELSE TimeoutReason

(***************************************************************************)
(* The values the environment supplies.                                    *)
(***************************************************************************)
GoodKey == Bs58Encode(Bytes(32, <<"key">>))

ShortKey == Bs58Encode(Bytes(31, <<"key">>))

PublicKeys == {GoodKey, ShortKey, JStr(<<"0", "O", "I", "l">>), JUndefined}

Wallet(publicKey) == [t |-> "wallet", publicKey |-> publicKey]

Wallets == {JNull} \cup {Wallet(pk) : pk \in PublicKeys}

Gpt4 == JStr(<<"g", "p", "t", "-", "4">>)

Inputs ==
    [model : SnowyModels \cup {Gpt4},
     prompt : {JStr(<<"h", "i">>), JStr(<<" ", " ">>), JStr(<<>>), JInt(7)},
     temperature : {JFrac(2), JNaN},
     maxTokens : {JInt(16), JFrac(155), JInfinity},
     timestamp : {JUndefined, JInt(1730000000), JFrac(5)}]

\* Date.now()
Clock == {JInt(1730000001)}

\* what wallet.signMessage resolves with
SignResults ==
    {JUint8Array(Bytes(n, <<"signature">>)) : n \in {0, 63, 64, 65}} \cup {JUndefined}

\* a promise of wallet.signMessage that rejected
Rejection(reason) == [t |-> "rejection", reason |-> reason]

\* what wallet.signMessage rejects with
WalletFault == [cls |-> "WalletSignError", msg |-> "User rejected the request"]

HttpResults ==
    {[ok |-> TRUE, status |-> 200, statusText |-> "OK"],
     [ok |-> FALSE, status |-> 500, statusText |-> "Internal Server Error"]}

OtherHash == Bs58Encode(Bytes(32, <<"other hash">>))

OtherKey == Bs58Encode(Bytes(32, <<"other key">>))

OtherProgramId == JStr(<<"X">>)

Usage(p, c, t) ==
    JObj(<<Entry(kPromptTokens, p), Entry(kCompletionTokens, c), Entry(kTotalTokens, t)>>)

Usages ==
    {JUndefined, Usage(JInt(3), JInt(5), JInt(8)), Usage(JUndefined, JInt(5), JInt(8)),
     Usage(JInt(3), JUndefined, JInt(8)), Usage(JInt(3), JInt(5), JUndefined)}

Verification(h, s, p) ==
    JObj(<<Entry(kRequestHash, h), Entry(kSigner, s), Entry(kProgramId, p)>>)

\* the verification blocks a router may answer a request with
Verifications(requestHash, signer, programId) ==
    {JUndefined}
    \cup {Verification(h, s, p) : h \in {requestHash, OtherHash}, s \in {signer, OtherKey},
                                  p \in {programId, OtherProgramId}}
    \cup {Verification(JUndefined, signer, programId),
          Verification(requestHash, JInt(0), programId),
          Verification(requestHash, signer, JNull)}

Response(o, m, u, v) ==
    JObj(<<Entry(kOutput, o), Entry(kModel, m), Entry(kUsage, u), Entry(kVerification, v)>>)

Responses(requestHash, signer, programId) ==
    {JNull, JInt(5)}
    \cup {Response(o, m, u, v) :
            o \in {JStr(<<"o", "k">>), JUndefined},
            m \in {SnowyBase, Gpt4, JInt(1)},
            u \in Usages,
            v \in Verifications(requestHash, signer, programId)}

Oops == RawText(<<"o", "o", "p", "s">>)

\* the body texts a router may answer a call with
BodyTexts(call, programId) ==
    IF call.entry = "generate" /\ call.res.ok
    THEN {RawText(<<>>), Oops}
         \cup {JsonText(r) : r \in Responses(call.requestHash, call.wallet.publicKey, programId)}
    ELSE {RawText(<<>>), Oops, JsonText(JNull), JsonText(Usage(JInt(3), JInt(5), JInt(8)))}

\* the bodies and options of a direct call of postJson
Bodies == {JObj(<<Entry(kPrompt, JStr(<<"h", "i">>))>>), JBigInt}

Timeouts == {JUndefined, JInt(0), JInt(10)}

Inits == [timeoutMs : Timeouts, signal : {"none", "live", "aborted"}]

Endpoint == JStr(<<"/", "v", "1">>)

ProgramIds == {SNOWY_PROGRAM_ID, JStr(<<"P", "2">>)}

\* two requests of two wallets, for calls that run at the same time
ConcurrentRequests ==
    {[wallet |-> Wallet(GoodKey),
      input |-> [model |-> SnowyBase, prompt |-> JStr(<<"h", "i">>), temperature |-> JFrac(2),
                 maxTokens |-> JInt(16), timestamp |-> JInt(1730000000)]],
     [wallet |-> Wallet(OtherKey),
      input |-> [model |-> SnowyCode, prompt |-> JStr(<<"y", "o">>), temperature |-> JFrac(2),
                 maxTokens |-> JInt(16), timestamp |-> JInt(1730000000)]]}

\* the body texts a call may be answered with while others run: the answer
\* to its own request or to any other request that has been sent
CrossedTexts(all, programId) ==
    {Oops}
    \cup {JsonText(Response(JStr(<<"o", "k">>), all[d].input.model,
                            Usage(JInt(3), JInt(5), JInt(8)),
                            Verification(all[d].requestHash, all[d].wallet.publicKey,
                                         programId))) :
            d \in {e \in CallIds : all[e].entry = "generate" /\ all[e].fetchCalls = 1}}

\* the orders the keys of a set can be written in
Orders(keys) ==
    {o \in [1..Cardinality(keys) -> keys] : \A i, j \in DOMAIN o : o[i] = o[j] => i = j}

\* the object an object literal makes: the properties are created in the
\* order written
ObjectOf(order, valOf) ==
    JObj(BuildObject(order, [i \in DOMAIN order |-> valOf[order[i]]], <<>>))

InnerObjects ==
    {ObjectOf(o, [k \in {<<"z">>, <<"y">>} |-> IF k = <<"y">> THEN JInt(1) ELSE JBool(TRUE)]) :
        o \in Orders({<<"z">>, <<"y">>})}

\* values handed to hashDeterministicJson as, or inside, a payload
Leaves ==
    {JNull, JBool(FALSE), JInt(1), JFrac(5), JStr(<<"x">>), JNaN, JInfinity, JUndefined,
     JUint8Array(Bytes(2, <<"raw">>)), JBigInt,
     JArr(<<>>), JArr(<<JInt(1), JUndefined>>), JArr(<<JInt(1), JHole, JInt(2)>>)}
    \cup InnerObjects
    \cup {JArr(<<i, JInt(2)>>) : i \in InnerObjects}

\* the objects over a set of keys: one property holds a leaf, the others 2
ObjectsOver(keys) ==
    {ObjectOf(o, [k \in keys |-> IF k = hot THEN leaf ELSE JInt(2)]) :
        o \in Orders(keys), leaf \in Leaves, hot \in keys}

HashValues ==
    Leaves
    \cup ObjectsOver({<<"b">>, <<"a">>})
    \cup ObjectsOver({<<"9">>, <<"1", "0">>})
    \cup ObjectsOver({<<"b">>, <<"1", "0">>, <<"B">>})

(***************************************************************************)
(* The client after construction, and the steps of a call.  A step runs    *)
(* from one await to the next, as a JavaScript job does.                   *)
(***************************************************************************)
Init ==
    /\ client \in [endpoint : {Endpoint}, programId : ProgramIds, timeoutMs : Timeouts]
    /\ calls = [c \in CallIds |-> IdleCall]

Set(c, call) == calls' = [calls EXCEPT ![c] = call] /\ UNCHANGED client

\* SnowyClient.generate, lines 103-128: validation, the payload, and the call
\* of hashDeterministicJson, which awaits the digest
generate(c, wallet, input, now) ==
    /\ calls[c].pc = "idle"
    /\ LET call == [calls[c] EXCEPT !.entry = "generate", !.wallet = wallet, !.input = input]
           built == buildToHash(wallet, input, client.programId, now)
       IN  IF ~built.ok
           THEN Set(c, finish(call, built, "validate"))
           ELSE Set(c, [call EXCEPT !.pc = "hashing", !.toHash = built.val, !.hashes = @ + 1])

\* a generate that starts the timeout's timer before it signs
hashSettle_TimerBeforeSigning(c, available) ==
    /\ calls[c].pc = "hashing"
    /\ LET call == calls[c]
           hash == hashDeterministicJson(call.toHash, available)
       IN  IF ~hash.ok
           THEN Set(c, finish(call, hash, "hash"))
           ELSE LET hashed == [call EXCEPT !.requestHashBytes = JUint8Array(hash.val.bytes),
                                           !.requestHash = hash.val.base58]
                    entered == signHashEnter(call.wallet, hashed.requestHashBytes)
                IN  IF ~entered.ok
                    THEN Set(c, finish(hashed, entered, "sign"))
                    ELSE Set(c, [hashed EXCEPT !.pc = "signing", !.signed = entered.val,
                                               !.signCalls = @ + 1,
                                               !.controller = "live", !.timer = "pending"])

\* hashDeterministicJson settles; generate goes on to signHash (line 130),
\* which calls wallet.signMessage
hashSettle(c, available) ==
    /\ calls[c].pc = "hashing"
    /\ LET call == calls[c]
           hash == hashDeterministicJson(call.toHash, available)
       IN  IF ~hash.ok
           THEN Set(c, finish(call, hash, "hash"))
           ELSE LET hashed == [call EXCEPT !.requestHashBytes = JUint8Array(hash.val.bytes),
                                           !.requestHash = hash.val.base58]
                    entered == signHashEnter(call.wallet, hashed.requestHashBytes)
                IN  IF ~entered.ok
                    THEN Set(c, finish(hashed, entered, "sign"))
                    ELSE Set(c, [hashed EXCEPT !.pc = "signing", !.signed = entered.val,
                                               !.signCalls = @ + 1])

\* wallet.signMessage resolves with sig; signHash checks it (lines 279-288),
\* generate builds the request and calls postJson (lines 132-141)
signResolve(c, sig) ==
    /\ calls[c].pc = "signing"
    /\ LET call == [calls[c] EXCEPT !.sig = sig]
           signature == signHashResume(sig)
       IN  IF ~signature.ok
           THEN Set(c, finish(call, signature, "sign"))
           ELSE Set(c, enterPostJson([call EXCEPT !.signature = signature.val],
                                     buildRequest(call.toHash, call.requestHash, signature.val),
                                     NoInit, client.timeoutMs, client.programId))

\* a rejection caught and thrown again under another message
signRejectedWith_Wrapped(e) == Err("Snowy SDK: signing failed")

\* wallet.signMessage rejects with e: nothing catches it
signRejectedWith(e) == e

signReject(c) ==
    /\ calls[c].pc = "signing"
    /\ Set(c, finish([calls[c] EXCEPT !.sig = Rejection(WalletFault)],
                      Throw(signRejectedWith(WalletFault)), "sign"))

\* Transport.postJson called by the application itself
postJson(c, body, init) ==
    /\ calls[c].pc = "idle"
    /\ Set(c, enterPostJson([calls[c] EXCEPT !.entry = "postJson"], body, init,
                            client.timeoutMs, client.programId))

\* the timer's callback, line 213: controller.abort(timeout error)
timerFire(c) ==
    /\ calls[c].timer = "pending"
    /\ Set(c, [calls[c] EXCEPT !.timer = "fired", !.controller = "aborted"])

\* the caller aborts the signal it passed, while the call is in flight
signalAbort(c) ==
    /\ calls[c].pc \in {"fetching", "reading"}
    /\ calls[c].extSignal = "live"
    /\ Set(c, [calls[c] EXCEPT !.extSignal = "aborted"])

\* fetch, or the body read, rejects with the reason of its aborted signal
abortReject(c) ==
    /\ calls[c].pc \in {"fetching", "reading"}
    /\ signalAborted(calls[c])
    /\ Set(c, settlePostJson(calls[c], Throw(signalReason(calls[c])), client.programId))

\* fetch resolves with the response's status line and headers
fetchResolve(c, res) ==
    /\ calls[c].pc = "fetching"
    /\ ~signalAborted(calls[c])
    /\ Set(c, [calls[c] EXCEPT !.pc = "reading", !.res = res])

\* a rejected fetch that is tried again
fetchReject_Retry(c) ==
    /\ calls[c].pc = "fetching"
    /\ ~signalAborted(calls[c])
    /\ Set(c, [calls[c] EXCEPT !.fetchCalls = @ + 1])

\* fetch rejects: no response
fetchReject(c) ==
    /\ calls[c].pc = "fetching"
    /\ ~signalAborted(calls[c])
    /\ Set(c, settlePostJson(calls[c], Throw(NetworkFault), client.programId))

\* res.text() resolves; postJson, lines 228-246
bodyResolve(c, text) ==
    /\ calls[c].pc = "reading"
    /\ ~signalAborted(calls[c])
    /\ Set(c, settlePostJson([calls[c] EXCEPT !.text = text],
                             readBody(calls[c].res, client.endpoint, text),
                             client.programId))

\* res.text() rejects: the connection broke while the body was read
bodyReject(c) ==
    /\ calls[c].pc = "reading"
    /\ ~signalAborted(calls[c])
    /\ Set(c, settlePostJson(calls[c], Throw(NetworkFault), client.programId))

\* hashDeterministicJson called by the application itself, lines 104-106:
\* the value is canonicalized and written as JSON, then the digest is awaited
hashJson(c, value) ==
    /\ calls[c].pc = "idle"
    /\ LET call == [calls[c] EXCEPT !.entry = "hashDeterministicJson", !.input = value,
                                    !.hashes = @ + 1]
           canonical == canonicalizeJson(value)
           json == JsonStringify(canonical.val)
       IN  IF ~canonical.ok THEN Set(c, finish(call, canonical, "hash"))
           ELSE IF ~json.ok THEN Set(c, finish(call, json, "hash"))
           ELSE Set(c, [call EXCEPT !.pc = "digesting", !.canonical = canonical.val,
                                    !.json = json.val])

\* the digest of a direct call settles, lines 106-107
digestSettle(c, available) ==
    /\ calls[c].pc = "digesting"
    /\ Set(c, finish(calls[c], hashDeterministicJson(calls[c].input, available), "hash"))

\* no call has been started yet
AllIdle == \A c \in CallIds : calls[c].pc = "idle"

\* One call at a time: a call is started on a client with no other call.
Next ==
    \E c \in CallIds :
        \/ AllIdle /\ \E w \in Wallets, i \in Inputs, now \in Clock : generate(c, w, i, now)
        \/ AllIdle /\ \E b \in Bodies, init \in Inits : postJson(c, b, init)
        \/ \E available \in BOOLEAN : hashSettle(c, available)
        \/ \E sig \in SignResults : signResolve(c, sig)
        \/ signReject(c)
        \/ timerFire(c)
        \/ signalAbort(c)
        \/ abortReject(c)
        \/ \E res \in HttpResults : fetchResolve(c, res)
        \/ fetchReject(c)
        \/ /\ calls[c].pc = "reading"
           /\ \E text \in BodyTexts(calls[c], client.programId) : bodyResolve(c, text)
        \/ bodyReject(c)

Spec == Init /\ [][Next]_vars

\* Calls of Transport.postJson alone, started at any time: a call may begin
\* while another is in flight or after it has settled.
NextTransport ==
    \E c \in CallIds :
        \/ \E b \in Bodies, init \in Inits : postJson(c, b, init)
        \/ timerFire(c)
        \/ signalAbort(c)
        \/ abortReject(c)
        \/ \E res \in HttpResults : fetchResolve(c, res)
        \/ fetchReject(c)
        \/ /\ calls[c].pc = "reading"
           /\ \E text \in BodyTexts(calls[c], client.programId) : bodyResolve(c, text)
        \/ bodyReject(c)

SpecTransport == Init /\ [][NextTransport]_vars

\* Calls of generate on one client with a timeout, started at any time and
\* interleaved at every await.
InitConcurrent ==
    /\ client = [endpoint |-> Endpoint, programId |-> SNOWY_PROGRAM_ID, timeoutMs |-> JInt(10)]
    /\ calls = [c \in CallIds |-> IdleCall]

NextConcurrent ==
    \E c \in CallIds :
        \/ \E r \in ConcurrentRequests, now \in Clock : generate(c, r.wallet, r.input, now)
        \/ hashSettle(c, TRUE)
        \/ signResolve(c, JUint8Array(Bytes(64, <<"signature">>)))
        \/ signReject(c)
        \/ timerFire(c)
        \/ abortReject(c)
        \/ fetchResolve(c, [ok |-> TRUE, status |-> 200, statusText |-> "OK"])
        \/ fetchReject(c)
        \/ /\ calls[c].pc = "reading"
           /\ \E text \in CrossedTexts(calls, client.programId) : bodyResolve(c, text)
        \/ bodyReject(c)

SpecConcurrent == InitConcurrent /\ [][NextConcurrent]_vars

\* Calls of hashDeterministicJson alone, one at a time.
NextHash ==
    \E c \in CallIds :
        \/ AllIdle /\ \E value \in HashValues : hashJson(c, value)
        \/ \E available \in BOOLEAN : digestSettle(c, available)

SpecHash == Init /\ [][NextHash]_vars

(***************************************************************************)
(* Properties.                                                             *)
(***************************************************************************)
IsGenerate(c) == calls[c].entry = "generate"

Settled(c) == calls[c].pc = "done"

InFlight(c) == calls[c].pc \in {"fetching", "reading"}

HasReturned(c) == calls[c].outcome.kind = "returned"

HasThrown(c, e) == calls[c].outcome = Threw(e)

\* postJson handed a parsed response to generate
GotResponse(c) == IsGenerate(c) /\ Settled(c) /\ calls[c].exit \in {"shape", "verification", "return"}

EchoedHash(c) == Prop(Prop(calls[c].response, kVerification), kRequestHash)

EchoedSigner(c) == Prop(Prop(calls[c].response, kVerification), kSigner)

EchoedProgramId(c) == Prop(Prop(calls[c].response, kVerification), kProgramId)

\* the response carries a requestHash other than the one sent
CarriesOtherHash(c) ==
    GotResponse(c) /\ EchoedHash(c).t = "string" /\ EchoedHash(c) # calls[c].requestHash

\* the response has every required field, of the required type
WellShaped(r) ==
    /\ r.t = "object"
    /\ Prop(r, kOutput).t = "string"
    /\ Prop(r, kModel) \in SnowyModels
    /\ Prop(r, kUsage).t = "object"
    /\ \A k \in {kPromptTokens, kCompletionTokens, kTotalTokens} :
           Prop(Prop(r, kUsage), k).t = "number"
    /\ Prop(r, kVerification).t = "object"
    /\ \A k \in {kRequestHash, kSigner, kProgramId} :
           Prop(Prop(r, kVerification), k).t = "string"

\* C1, as stated: generate returns a response only if its verification block
\* echoes the requestHash sent, the wallet's publicKey and the client's
\* programId; and whenever the response carries another requestHash, generate
\* fails with the requestHash mismatch.
C1_AnyResponseWithOtherHashIsAMismatch ==
    \A c \in CallIds :
        IsGenerate(c) =>
            /\ HasReturned(c) =>
                   /\ EchoedHash(c) = calls[c].requestHash
                   /\ EchoedSigner(c) = calls[c].wallet.publicKey
                   /\ EchoedProgramId(c) = client.programId
            /\ CarriesOtherHash(c) => HasThrown(c, RequestHashMismatch)

\* C1, as amended: generate returns a response only if its verification block
\* echoes the requestHash sent, the wallet's publicKey and the client's
\* programId, and what it returns is that response; a response that carries
\* another requestHash is never returned: generate fails, with the requestHash
\* mismatch when the response is well shaped.
C1_ReturnedOnlyIfVerified ==
    \A c \in CallIds :
        IsGenerate(c) =>
            /\ HasReturned(c) =>
                   /\ calls[c].outcome.val = calls[c].response
                   /\ EchoedHash(c) = calls[c].requestHash
                   /\ EchoedSigner(c) = calls[c].wallet.publicKey
                   /\ EchoedProgramId(c) = client.programId
            /\ CarriesOtherHash(c) =>
                   /\ calls[c].outcome.kind = "threw"
                   /\ WellShaped(calls[c].response) => HasThrown(c, RequestHashMismatch)

C1_Witness ==
    \E c \in CallIds :
        /\ CarriesOtherHash(c)
        /\ WellShaped(calls[c].response)
        /\ EchoedSigner(c) = calls[c].wallet.publicKey
        /\ HasThrown(c, RequestHashMismatch)

\* C2: when wallet.signMessage resolves with a byte array that is not 64 bytes
\* long, generate fails with the signature-length error and fetch has not been
\* and is never invoked by that call.
C2_BadSignatureLengthStopsBeforeFetch ==
    \A c \in CallIds :
        (calls[c].sig.t = "uint8array" /\ calls[c].sig.bytes.len # 64) =>
            /\ Settled(c)
            /\ HasThrown(c, Not64Bytes)
            /\ calls[c].fetchCalls = 0

C2_Witness ==
    \E c \in CallIds :
        /\ calls[c].sig.t = "uint8array"
        /\ calls[c].sig.bytes.len = 63
        /\ calls[c].signCalls = 1
        /\ HasThrown(c, Not64Bytes)

\* the wallet's publicKey is a base58 text of 32 bytes
KeyDecodesTo32(w) == Bs58Decode(w.publicKey).ok /\ Bs58Decode(w.publicKey).val.len = 32

\* C3: when wallet.publicKey does not decode to exactly 32 bytes, generate
\* fails with the invalid-signer error, and that call has done no hashing, no
\* call of wallet.signMessage and no call of fetch.
C3_BadSignerStopsBeforeHashing ==
    \A c \in CallIds :
        (IsGenerate(c) /\ ~Falsy(calls[c].wallet) /\ ~KeyDecodesTo32(calls[c].wallet)) =>
            /\ Settled(c)
            /\ calls[c].outcome.kind = "threw"
            /\ calls[c].outcome.err \in {InvalidBase58, Not32Bytes}
            /\ Bs58Decode(calls[c].wallet.publicKey).ok => HasThrown(c, Not32Bytes)
            /\ calls[c].hashes = 0
            /\ calls[c].signCalls = 0
            /\ calls[c].fetchCalls = 0

C3_Witness ==
    \E c \in CallIds :
        /\ IsGenerate(c)
        /\ calls[c].wallet = Wallet(ShortKey)
        /\ HasThrown(c, Not32Bytes)

\* the input is what section 4.3 step 1 asks for
ValidInput(i) ==
    /\ i.model \in SnowyModels
    /\ i.prompt.t = "string" /\ ~IsBlankText(i.prompt)
    /\ IsFinite(i.temperature)
    /\ IsInteger(i.maxTokens)
    /\ IsNullish(i.timestamp) \/ IsInteger(i.timestamp)

\* C4: a call of generate that fails in input validation (the wallet, the
\* input's fields, the canonicalization of the payload) has not invoked fetch;
\* fetch is invoked only for a valid input and a valid signer.
C4_ValidationFailureSendsNothing ==
    \A c \in CallIds :
        IsGenerate(c) =>
            /\ calls[c].exit \in {"validate", "hash"} => calls[c].fetchCalls = 0
            /\ calls[c].fetchCalls > 0 =>
                   /\ ValidInput(calls[c].input)
                   /\ KeyDecodesTo32(calls[c].wallet)

C4_Witness ==
    \E c \in CallIds :
        /\ IsGenerate(c)
        /\ ~Falsy(calls[c].wallet)
        /\ KeyDecodesTo32(calls[c].wallet)
        /\ calls[c].input.maxTokens = JFrac(155)
        /\ HasThrown(c, NotInteger("maxTokens"))
        /\ calls[c].fetchCalls = 0

\* C5: once the timer of a call with a timeout in effect has fired while the
\* network call is in flight, the signal that fetch holds is aborted (with or
\* without a caller's signal), and the call can only fail with the timeout.
C5_TimeoutAbortsTheCallInFlight ==
    \A c \in CallIds :
        /\ (calls[c].timer = "fired" /\ InFlight(c)) => signalAborted(calls[c])
        /\ (calls[c].timer = "fired" /\ Settled(c)) =>
               calls[c].outcome \in {Threw(NetworkFailure(TimeoutReason)),
                                     Threw(NetworkFailure(AbortReason))}

C7_NoTimerOutlivesItsCall ==
    \A c \in CallIds : Settled(c) => calls[c].timer # "pending"

C7_Witness ==
    \E c \in CallIds :
        /\ Settled(c)
        /\ calls[c].timer = "cleared"
        /\ calls[c].outcome.kind = "threw"
        /\ calls[c].outcome.err.cls = "SnowyHttpError"

\* C8: a call invokes wallet.signMessage at most once and fetch at most once,
\* whatever fails.
C8_NoRetry ==
    \A c \in CallIds : calls[c].signCalls <= 1 /\ calls[c].fetchCalls <= 1

C8_Witness ==
    \E c \in CallIds :
        /\ IsGenerate(c)
        /\ HasThrown(c, NetworkFailure(NetworkFault))
        /\ calls[c].signCalls = 1
        /\ calls[c].fetchCalls = 1

\* C9: when wallet.signMessage rejects, generate is settled by that step, with
\* the very value the wallet rejected with, and fetch is not invoked.
C9_SigningFailureSurfacesUnchanged ==
    \A c \in CallIds :
        calls[c].sig.t = "rejection" =>
            /\ Settled(c)
            /\ HasThrown(c, calls[c].sig.reason)
            /\ calls[c].fetchCalls = 0

C9_Witness ==
    \E c \in CallIds :
        /\ calls[c].sig.t = "rejection"
        /\ calls[c].signCalls = 1
        /\ HasThrown(c, WalletFault)

ShapeErrors ==
    {ShapeError("Snowy SDK: invalid response"),
     ShapeError("Snowy SDK: response.output must be a string"),
     ShapeError("Snowy SDK: response.model must be a string"),
     ShapeError("Snowy SDK: response.usage missing"),
     ShapeError("Snowy SDK: usage.promptTokens missing"),
     ShapeError("Snowy SDK: usage.completionTokens missing"),
     ShapeError("Snowy SDK: usage.totalTokens missing"),
     ShapeError("Snowy SDK: response.verification missing"),
     ShapeError("Snowy SDK: verification.requestHash missing"),
     ShapeError("Snowy SDK: verification.signer missing"),
     ShapeError("Snowy SDK: verification.programId missing")}

\* the error of the first mismatch, in the order requestHash, signer, programId
FirstMismatch(c) ==
    IF EchoedHash(c) # calls[c].requestHash THEN Threw(RequestHashMismatch)
    ELSE IF EchoedSigner(c) # calls[c].wallet.publicKey THEN Threw(SignerMismatch)
    ELSE IF EchoedProgramId(c) # client.programId THEN Threw(ProgramIdMismatch)
    ELSE Returned(calls[c].response)

\* C10: a response that is not well shaped is reported as an invalid shape,
\* whatever it echoes; a well-shaped one is reported for its first mismatch
\* in the order requestHash, signer, programId, and returned when it has none.
C10_ShapeFirstThenMismatchesInOrder ==
    \A c \in CallIds :
        GotResponse(c) =>
            IF WellShaped(calls[c].response)
            THEN calls[c].outcome = FirstMismatch(c)
            ELSE /\ calls[c].exit = "shape"
                 /\ calls[c].outcome.kind = "threw"
                 /\ \/ calls[c].outcome.err \in ShapeErrors
                    \/ calls[c].outcome.err = UnsupportedModel(Prop(calls[c].response, kModel))

C10_Witness ==
    \E c \in CallIds :
        /\ GotResponse(c)
        /\ WellShaped(calls[c].response)
        /\ EchoedHash(c) # calls[c].requestHash
        /\ EchoedSigner(c) # calls[c].wallet.publicKey
        /\ EchoedProgramId(c) # client.programId
        /\ HasThrown(c, RequestHashMismatch)

\* the call has read the whole body of a response
BodyRead(c) == Settled(c) /\ calls[c].text # JUndefined

\* C11: a call that has read the body of a response with a non-2xx status
\* fails with the SnowyHttpError carrying that status, statusText and the body
\* text as read, whether the text is empty, not JSON or JSON; it does not fail
\* with the empty-body, parse or network-failure error.
C11_Non2xxIsHttpErrorWithRawBody ==
    \A c \in CallIds :
        (BodyRead(c) /\ ~calls[c].res.ok) =>
            /\ HasThrown(c, SnowyHttpError(calls[c].res.status, calls[c].res.statusText,
                                           client.endpoint, calls[c].text))
            /\ calls[c].outcome.err.cls # "SnowyTransportError"
            /\ calls[c].exit = "transport"

C11_Witness ==
    \E c \in CallIds :
        /\ BodyRead(c)
        /\ calls[c].res.status = 500
        /\ calls[c].text = Oops
        /\ calls[c].outcome.kind = "threw"
        /\ calls[c].outcome.err.cls = "SnowyHttpError"
        /\ calls[c].outcome.err.status = 500
        /\ calls[c].outcome.err.bodyText = Oops

\* why a call of postJson failed, read off what happened to it
FailureCause(c) ==
    IF ~(Settled(c) /\ calls[c].outcome.kind = "threw" /\ calls[c].fetchCalls = 1) THEN "none"
    ELSE IF calls[c].signal = "controller" /\ calls[c].controller = "aborted" THEN "timeout"
    ELSE IF calls[c].signal = "init" /\ calls[c].extSignal = "aborted" THEN "cancelled"
    ELSE IF calls[c].text = JUndefined THEN "network"
    ELSE IF ~calls[c].res.ok THEN "http"
    ELSE IF TextIsEmpty(calls[c].text) THEN "empty"
    ELSE IF ~JsonParse(calls[c].text).ok THEN "malformed"
    ELSE "none"

\* what calling code can branch on without reading the message: the class
\* of the error (instanceof)
ErrorKind(e) == e.cls

\* C12: two calls of postJson that failed for different reasons among
\* timeout, caller cancellation, network fault, empty 2xx body and unparsable
\* 2xx body failed with errors of different kinds.
C12_FailuresDifferInKind ==
    \A c, d \in CallIds :
        LET causes == {"timeout", "cancelled", "network", "empty", "malformed"}
        IN  (/\ FailureCause(c) \in causes
             /\ FailureCause(d) \in causes
             /\ FailureCause(c) # FailureCause(d)) =>
                ErrorKind(calls[c].outcome.err) # ErrorKind(calls[d].outcome.err)

\* a and b are the same value but for the order their objects' properties
\* were created in
RECURSIVE SameUpToOrder(_, _)
SameUpToOrder(a, b) ==
    IF a.t # b.t THEN FALSE
    ELSE IF a.t = "object"
         THEN LET keysOf(o) == {o.entries[i].key : i \in DOMAIN o.entries}
              IN  /\ keysOf(a) = keysOf(b)
                  /\ \A k \in keysOf(a) : SameUpToOrder(Get(a, k), Get(b, k))
    ELSE IF a.t = "array"
         THEN /\ Len(a.items) = Len(b.items)
              /\ \A i \in DOMAIN a.items : SameUpToOrder(a.items[i], b.items[i])
    ELSE a = b

\* the text hashDeterministicJson hashes for a value
Encoding(value) ==
    LET canonical == canonicalizeJson(value)
    IN  IF canonical.ok THEN JsonStringify(canonical.val) ELSE canonical

IsHashCall(c) == calls[c].entry = "hashDeterministicJson"

\* the call canonicalized its value and wrote it as JSON
Encoded(c) == IsHashCall(c) /\ calls[c].canonical # JUndefined

\* C13: the text a call of hashDeterministicJson hashes is the text hashed
\* for every value that differs from the call's value only in the order of
\* the keys of its objects, at any depth; and canonicalizing the canonical
\* value again gives the same value and the same text.
C13_EncodingIgnoresKeyOrder ==
    \A c \in CallIds :
        Encoded(c) =>
            /\ \A w \in HashValues :
                   SameUpToOrder(calls[c].input, w) => Encoding(w) = Ok(calls[c].json)
            /\ canonicalizeJson(calls[c].canonical) = Ok(calls[c].canonical)
            /\ Encoding(calls[c].canonical) = Ok(calls[c].json)

\* a value with a nested object, both written in another order than sorted
C13_Witness ==
    \E c \in CallIds :
        /\ Encoded(c)
        /\ calls[c].input.t = "object"
        /\ calls[c].input # calls[c].canonical
        /\ Get(calls[c].input, <<"a">>).t = "object"
        /\ \E w \in HashValues :
               /\ w.t = "object"
               /\ w # calls[c].input
               /\ Get(w, <<"a">>) # Get(calls[c].input, <<"a">>)
               /\ SameUpToOrder(calls[c].input, w)
        /\ calls[c].outcome.kind = "returned"

\* In a JSON text, given as its tokens, the keys of every object are written
\* in ascending order.  open: for each object or array not yet closed, the
\* innermost first, the last key written in it.
RECURSIVE KeysAscend(_, _)
KeysAscend(tokens, open) ==
    IF tokens = <<>> THEN TRUE
    ELSE LET h == Head(tokens)
             rest == Tail(tokens)
         IN  IF h.tok = "punct" /\ h.ch \in {"{", "["}
             THEN KeysAscend(rest, <<[any |-> FALSE, key |-> <<>>]>> \o open)
             ELSE IF h.tok = "punct" /\ h.ch \in {"}", "]"}
             THEN KeysAscend(rest, Tail(open))
             ELSE IF h.tok = "value" /\ rest # <<>> /\ Head(rest).tok = "punct"
                     /\ Head(rest).ch = ":"
             THEN /\ open[1].any => KeyLess(open[1].key, h.v.cs)
                  /\ KeysAscend(rest, <<[any |-> TRUE, key |-> h.v.cs]>> \o Tail(open))
             ELSE KeysAscend(rest, open)

\* the keys of the outermost object of a JSON text, in the order written
RECURSIVE TopKeys(_, _)
TopKeys(tokens, depth) ==
    IF tokens = <<>> THEN <<>>
    ELSE LET h == Head(tokens)
             rest == Tail(tokens)
         IN  IF h.tok = "punct" /\ h.ch \in {"{", "["} THEN TopKeys(rest, depth + 1)
             ELSE IF h.tok = "punct" /\ h.ch \in {"}", "]"} THEN TopKeys(rest, depth - 1)
             ELSE IF depth = 1 /\ h.tok = "value" /\ rest # <<>> /\ Head(rest).tok = "punct"
                     /\ Head(rest).ch = ":"
             THEN <<h.v.cs>> \o TopKeys(rest, depth)
             ELSE TopKeys(rest, depth)

\* the text a call of generate hashed: what its digest is the digest of
HashedText(c) == calls[c].requestHashBytes.bytes.id[2]

\* C14 (payload): the text generate hashes has the keys maxTokens, model,
\* programId, prompt, signer, temperature, timestamp, in that order.
PayloadKeysInFixedOrder ==
    \A c \in CallIds :
        (IsGenerate(c) /\ calls[c].requestHashBytes # JUndefined) =>
            TopKeys(HashedText(c), 0) =
                <<kMaxTokens, kModel, kProgramId, kPrompt, kSigner, kTemperature, kTimestamp>>

\* C14: in the text a call of hashDeterministicJson hashes, the keys of every
\* object, at every depth, are in ascending lexicographic order of the key
\* text, keys that look like integers included; and the payload of generate
\* has its keys in the fixed order.
C14_KeysInLexicographicOrder ==
    /\ \A c \in CallIds : Encoded(c) => KeysAscend(calls[c].json, <<>>)
    /\ PayloadKeysInFixedOrder

\* a value built only of null, booleans, finite numbers, texts, lists and
\* plain maps, with no element or property absent
RECURSIVE AcceptedShape(_)
AcceptedShape(v) ==
    IF v.t \in {"null", "boolean", "string"} THEN TRUE
    ELSE IF v.t = "number" THEN IsFinite(v)
    ELSE IF v.t = "array" THEN \A i \in DOMAIN v.items : AcceptedShape(v.items[i])
    ELSE IF v.t = "object" THEN \A i \in DOMAIN v.entries : AcceptedShape(v.entries[i].val)
    ELSE FALSE

CanonicalizeErrors ==
    {UndefinedInPayload, NonFiniteNumber, Uint8ArrayInPayload, UnsupportedValue}

\* C15: a call of hashDeterministicJson canonicalizes its value exactly when
\* the value is of accepted shape at every depth; on any other value (a
\* non-finite number, an absent value in a map or list, a Uint8Array, a value
\* of another type) it fails in canonicalizeJson and gives no digest.
C15_CanonicalizesExactlyAcceptedShapes ==
    \A c \in CallIds :
        (IsHashCall(c) /\ calls[c].pc # "idle") =>
            IF AcceptedShape(calls[c].input)
            THEN Encoded(c)
            ELSE /\ Settled(c)
                 /\ calls[c].outcome.kind = "threw"
                 /\ calls[c].outcome.err \in CanonicalizeErrors

\* the input as C16 words it: the prompt any non-empty text
ValidInputAsStated(i) ==
    /\ i.model \in SnowyModels
    /\ i.prompt.t = "string" /\ ~IsEmptyText(i.prompt)
    /\ IsFinite(i.temperature)
    /\ IsInteger(i.maxTokens)
    /\ IsNullish(i.timestamp) \/ IsInteger(i.timestamp)

\* generate was called with a wallet whose publicKey is valid
ValidatedInput(c) ==
    /\ IsGenerate(c)
    /\ ~Falsy(calls[c].wallet)
    /\ KeyDecodesTo32(calls[c].wallet)

\* the invalid-input error of the first field, in the order checked, that
\* is not as required
FirstInvalidField(i) ==
    IF i.model \notin SnowyModels THEN UnsupportedModel(i.model)
    ELSE IF ~(i.prompt.t = "string" /\ ~IsBlankText(i.prompt)) THEN NotNonEmptyString("prompt")
    ELSE IF ~IsFinite(i.temperature) THEN NotFiniteNumber("temperature")
    ELSE IF ~IsFinite(i.maxTokens) THEN NotFiniteNumber("maxTokens")
    ELSE IF ~IsInteger(i.maxTokens) THEN NotInteger("maxTokens")
    ELSE IF ~IsFinite(i.timestamp) THEN NotFiniteNumber("timestamp")
    ELSE NotInteger("timestamp")

\* C16, as stated: with a valid wallet, generate goes on to hashing exactly
\* when the model is supported, the prompt is a non-empty text, temperature
\* is a finite number, and maxTokens and the timestamp are finite integers.
C16_HashesExactlyNonEmptyPrompts ==
    \A c \in CallIds :
        ValidatedInput(c) => (calls[c].hashes = 1 <=> ValidInputAsStated(calls[c].input))

\* C16, amended: the same with the prompt a text that has a character other
\* than white space; an input that is not valid fails in validation with the
\* invalid-input error of the first field that is not as required, and no
\* hashing.
C16_HashesExactlyValidInputs ==
    \A c \in CallIds :
        ValidatedInput(c) =>
            IF ValidInput(calls[c].input)
            THEN calls[c].hashes = 1
            ELSE /\ calls[c].hashes = 0
                 /\ calls[c].exit = "validate"
                 /\ HasThrown(c, FirstInvalidField(calls[c].input))

C16_Witness ==
    \E c \in CallIds :
        /\ ValidatedInput(c)
        /\ ValidInputAsStated(calls[c].input)
        /\ calls[c].input.prompt = JStr(<<" ", " ">>)
        /\ HasThrown(c, NotNonEmptyString("prompt"))
        /\ calls[c].hashes = 0

HashedKeys == {kProgramId, kModel, kPrompt, kTemperature, kMaxTokens, kTimestamp, kSigner}

\* generate handed a request body to the transport
HandedToTransport(c) == IsGenerate(c) /\ calls[c].fetchCalls = 1

\* C17: the body generate hands to the transport has the seven fields of
\* the payload that was canonicalized and hashed, with the same values, and
\* besides them only requestHash, the base58 text of the digest bytes given
\* to wallet.signMessage, and signature, the base58 text of the bytes
\* signMessage returned; the digest is that of the payload's canonical text,
\* and what is sent is the JSON text of that body.
C17_BodyIsHashedPayloadPlusHashAndSignature ==
    \A c \in CallIds :
        HandedToTransport(c) =>
            LET body == calls[c].body
                toHash == calls[c].toHash
            IN  /\ {body.entries[i].key : i \in DOMAIN body.entries}
                       = HashedKeys \cup {kRequestHash, kSignature}
                /\ Len(body.entries) = 9
                /\ \A k \in HashedKeys : Get(body, k) = Get(toHash, k)
                /\ Get(toHash, kModel) = calls[c].input.model
                /\ Get(toHash, kPrompt) = calls[c].input.prompt
                /\ Get(toHash, kSigner) = calls[c].wallet.publicKey
                /\ Get(toHash, kProgramId) = client.programId
                /\ Encoding(toHash).ok
                /\ calls[c].signed = JUint8Array(sha256(Encoding(toHash).val))
                /\ Get(body, kRequestHash) = Bs58Encode(calls[c].signed.bytes)
                /\ calls[c].sig.t = "uint8array"
                /\ Get(body, kSignature) = Bs58Encode(calls[c].sig.bytes)
                /\ JsonStringify(body) = Ok(calls[c].sent)

C17_Witness ==
    \E c \in CallIds :
        /\ HandedToTransport(c)
        /\ calls[c].pc = "fetching"
        /\ calls[c].input.timestamp = JUndefined
        /\ Get(calls[c].body, kTimestamp) \in Clock
        /\ Get(calls[c].body, kSignature) = Bs58Encode(Bytes(64, <<"signature">>))
        /\ Get(calls[c].body, kRequestHash) = calls[c].requestHash

\* C18: while a call of generate validates, hashes or awaits
\* wallet.signMessage it has no timer and no abort controller; a timer exists
\* only once fetch has been called, and it is pending at the moment fetch is
\* called; a call that settled before fetch did not fail with a timeout.
C18_TimerArmedOnlyForTheNetworkCall ==
    \A c \in CallIds :
        IsGenerate(c) =>
            /\ calls[c].fetchCalls = 0 =>
                   /\ calls[c].timer = "none"
                   /\ calls[c].controller = "none"
                   /\ Settled(c) => calls[c].outcome.kind = "threw"
                   /\ Settled(c) => calls[c].outcome.err # NetworkFailure(TimeoutReason)
            /\ calls[c].timer # "none" =>
                   /\ calls[c].signCalls = 1
                   /\ calls[c].sig.t = "uint8array"

C18_Witness ==
    \E c \in CallIds :
        /\ IsGenerate(c)
        /\ calls[c].pc = "fetching"
        /\ ~Falsy(client.timeoutMs)
        /\ calls[c].timer = "pending"
        /\ calls[c].signCalls = 1

\* the call's request data is its own: the payload is built of its input and
\* wallet, the bytes signed are the digest of that payload, the hash is
\* their text, the body carries them
OwnRequestData(c) ==
    /\ calls[c].toHash # JUndefined =>
           /\ Get(calls[c].toHash, kPrompt) = calls[c].input.prompt
           /\ Get(calls[c].toHash, kModel) = calls[c].input.model
           /\ Get(calls[c].toHash, kSigner) = calls[c].wallet.publicKey
    /\ calls[c].pc = "signing" =>
           calls[c].signed = JUint8Array(sha256(Encoding(calls[c].toHash).val))
    /\ calls[c].requestHash # JUndefined =>
           calls[c].requestHash = Bs58Encode(calls[c].signed.bytes)
    /\ calls[c].fetchCalls = 1 =>
           calls[c].body = buildRequest(calls[c].toHash, calls[c].requestHash,
                                        calls[c].signature)

\* a step of one call leaves every other call, and the client, as they were
OneCallPerStep ==
    /\ client' = client
    /\ \A c \in CallIds :
           calls'[c] # calls[c] => \A d \in CallIds \ {c} : calls'[d] = calls[d]

\* C19: with calls of generate interleaved at every await, each call keeps
\* its own request data, and a call that is handed a well-shaped response
\* (its own answer or the answer to another call's request) is settled by
\* comparing it with its own requestHash, its own wallet's publicKey and the
\* client's programId, as a call running alone is; and every step changes
\* the state of one call only.
C19_ConcurrentCallsAreIndependent ==
    /\ [](\A c \in CallIds :
              IsGenerate(c) =>
                  /\ OwnRequestData(c)
                  /\ (GotResponse(c) /\ WellShaped(calls[c].response)) =>
                         calls[c].outcome = FirstMismatch(c))
    /\ [][OneCallPerStep]_vars

\* one call returned its answer; another, handed that same answer while the
\* first was running, failed with the requestHash mismatch
C19_Witness ==
    \E c, d \in CallIds :
        /\ c # d
        /\ IsGenerate(c) /\ HasReturned(c)
        /\ IsGenerate(d) /\ HasThrown(d, RequestHashMismatch)
        /\ calls[d].response = calls[c].response
        /\ calls[c].requestHash # calls[d].requestHash

\* C20: a call of generate whose input is invalid and whose wallet's
\* publicKey does not decode to 32 bytes fails with the invalid-input error
\* of the input, not with the invalid-signer error.
C20_InputIsCheckedBeforeSigner ==
    \A c \in CallIds :
        (/\ IsGenerate(c)
         /\ ~Falsy(calls[c].wallet)
         /\ ~KeyDecodesTo32(calls[c].wallet)
         /\ ~ValidInput(calls[c].input)) =>
            /\ Settled(c)
            /\ HasThrown(c, FirstInvalidField(calls[c].input))

\* postJson failed: the call settled with what postJson threw
PostJsonFailed(c) ==
    Settled(c) /\ calls[c].exit = "transport" /\ calls[c].outcome.kind = "threw"

\* what was thrown inside the try block of the call's postJson
FaultInside(c) ==
    IF calls[c].fetchCalls = 0 THEN JsonStringify(calls[c].body).err
    ELSE IF calls[c].text # JUndefined
         THEN readBody(calls[c].res, client.endpoint, calls[c].text).err
    ELSE IF signalAborted(calls[c]) THEN signalReason(calls[c])
    ELSE NetworkFault

SdkErrors == {"SnowyHttpError", "SnowyTransportError"}

\* C21: a call of postJson that fails does so with a SnowyHttpError or a
\* SnowyTransportError; when what was thrown inside the call is one of these
\* (non-2xx status, empty body, unparsable body) the failure is that very
\* error, and when it is any other fault (fetch rejected, the signal aborted,
\* the body read failed, the body could not be serialized) the failure is the
\* SnowyTransportError 'network or fetch failure' whose cause is that fault,
\* itself not an error of the two classes.
C21_FailuresPassOrAreWrappedOnce ==
    \A c \in CallIds :
        PostJsonFailed(c) =>
            LET e == calls[c].outcome.err
                fault == FaultInside(c)
            IN  /\ e.cls \in SdkErrors
                /\ IF fault.cls \in SdkErrors
                   THEN e = fault
                   ELSE /\ e = SnowyTransportError("Snowy SDK: network or fetch failure", fault)
                        /\ e.cause.cls \notin SdkErrors

\* an unparsable 2xx body: the SnowyTransportError thrown for it, which has
\* a cause of its own, reaches the caller as thrown
C21_Witness ==
    \E c \in CallIds :
        /\ PostJsonFailed(c)
        /\ calls[c].res.ok
        /\ calls[c].text = Oops
        /\ HasThrown(c, SnowyTransportError("Snowy SDK: failed to parse JSON response",
                                            JsonParse(Oops).err))

\* the call awaits the network with no timeout in effect and no aborted
\* signal of the caller's
WaitsWithoutTimeout(c) ==
    /\ InFlight(c)
    /\ Falsy(calls[c].timeoutMs)
    /\ calls[c].extSignal # "aborted"

\* C22: for a call that has called fetch, the timeout in effect is the
\* timeoutMs given to that call of postJson when one is given, and the
\* Transport's default otherwise; when it is absent or 0 the call has no
\* timer and no abort controller, and while it awaits the network and the
\* caller has not cancelled it, it is pending and neither a timer nor an
\* abort can settle it: only the network's answer can.
C22_NoTimeoutNoTimer ==
    \A c \in CallIds :
        calls[c].fetchCalls = 1 =>
            /\ calls[c].timeoutMs =
                   IF calls[c].init.timeoutMs # JUndefined THEN calls[c].init.timeoutMs
                   ELSE client.timeoutMs
            /\ Falsy(calls[c].timeoutMs) =>
                   /\ calls[c].timer = "none"
                   /\ calls[c].controller = "none"
            /\ WaitsWithoutTimeout(c) =>
                   /\ calls[c].outcome = Pending
                   /\ ~ENABLED timerFire(c)
                   /\ ~ENABLED abortReject(c)

\* a call of postJson given timeoutMs 0 on a Transport whose default is 10
C22_Witness ==
    \E c \in CallIds :
        /\ calls[c].entry = "postJson"
        /\ calls[c].init.timeoutMs = JInt(0)
        /\ client.timeoutMs = JInt(10)
        /\ WaitsWithoutTimeout(c)
        /\ calls[c].timer = "none"
        /\ calls[c].controller = "none"

====
